---- MODULE Spec2Model ----
(***************************************************************************)
(* RainWatch: users, devices and readings behind cookie sessions           *)
(* (src/main.py, src/database.py).                                         *)
(*                                                                         *)
(* Tables are sequences of rows in insertion order; a row's id is its      *)
(* index (autoincrement primary keys, rows are never deleted).  Strings    *)
(* that the program folds, trims or pattern-matches (device codes, the     *)
(* deviceCode header) are sequences of one-character strings; strings it   *)
(* only compares for equality (usernames, passwords, names) are TLA+       *)
(* strings.  An optional value is <<>> (None / omitted) or <<v>>.  The     *)
(* clock counts minutes.                                                    *)
(***************************************************************************)
EXTENDS Integers, Sequences, FiniteSets, TLC

VARIABLES
    users,      \* table users:    [id, username, hashed_password]
    devices,    \* table devices:  [id, device_code, name, latitude, longitude, user_id]
    readings,   \* table readings: [id, timestamp, temperature, pressure, humidity, device_id]
    now,        \* datetime.now(UTC), in minutes
    session,    \* the browser's access_token cookie and the minute it was issued
    inflight,   \* per worker: its request between the existence check and the commit
    resp        \* the request just served and its response

vars == <<users, devices, readings, now, session, inflight, resp>>

----------------------------------------------------------------------------
(* Bounds of the model *)

MaxTime == 33       \* the clock of the session specification stops here
MaxStamp == 1       \* the clock of the ingestion specification stops here
MaxReadings == 2   \* rows the readings table may hold
NumClients == 2    \* worker processes serving register-device concurrently

(* Program constants *)

ACCESS_TOKEN_EXPIRE_MINUTES == 30
DEFAULT_EXPIRE_MINUTES == 15
SECRET_KEY == "process_key"

None == <<>>
Some(v) == <<v>>

Usernames == {"bob", "Bob"}
Passwords == {"pw", "bad"}

----------------------------------------------------------------------------
(* database.py: password hashing *)

get_password_hash(password) == <<"bcrypt", password>>

verify_password(plain_password, hashed_password) ==
    hashed_password = <<"bcrypt", plain_password>>

lower_name(username) == IF username = "Bob" THEN "bob" ELSE username

(* db.query(User).filter(User.username == username).first(): the id of the
   row whose username is exactly `username`, 0 when there is none. *)

find_user_nocase(rows, username) ==
    IF \E i \in 1..Len(rows) : lower_name(rows[i].username) = lower_name(username)
    THEN CHOOSE i \in 1..Len(rows) : lower_name(rows[i].username) = lower_name(username)
    ELSE 0

find_user(rows, username) ==
    IF \E i \in 1..Len(rows) : rows[i].username = username
    THEN CHOOSE i \in 1..Len(rows) : rows[i].username = username
    ELSE 0

----------------------------------------------------------------------------
(* Token service: jose.jwt with HS256 over SECRET_KEY *)

Sign(key, sub, exp) == <<key, sub, exp>>

NoCookie == [kind |-> "absent", sub |-> "", exp |-> 0, sig |-> <<>>]
EmptyCookie == [kind |-> "empty", sub |-> "", exp |-> 0, sig |-> <<>>]
MalformedCookie == [kind |-> "malformed", sub |-> "", exp |-> 0, sig |-> <<>>]
Jwt(sub, exp, sig) == [kind |-> "jwt", sub |-> sub, exp |-> exp, sig |-> sig]

create_access_token_default(sub, expires_delta, t) ==
    Jwt(sub, t + DEFAULT_EXPIRE_MINUTES, Sign(SECRET_KEY, sub, t + DEFAULT_EXPIRE_MINUTES))

create_access_token(sub, expires_delta, t) ==
    LET expire == IF expires_delta # None
                  THEN t + expires_delta[1]
                  ELSE t + DEFAULT_EXPIRE_MINUTES
    IN  Jwt(sub, expire, Sign(SECRET_KEY, sub, expire))

(* jwt.decode(token, SECRET_KEY, algorithms=[ALGORITHM]): the payload, or
   JWTError (ok = FALSE) for a token that is malformed, whose signature does
   not verify, or whose exp is before the current time. *)
jwt_decode_unverified(token, key, t) ==
    IF token.kind = "jwt" /\ ~(token.exp < t)
    THEN [ok |-> TRUE, sub |-> Some(token.sub)]
    ELSE [ok |-> FALSE, sub |-> None]

jwt_decode(token, key, t) ==
    IF /\ token.kind = "jwt"
       /\ token.sig = Sign(key, token.sub, token.exp)
       /\ ~(token.exp < t)
    THEN [ok |-> TRUE, sub |-> Some(token.sub)]
    ELSE [ok |-> FALSE, sub |-> None]

(* get_current_user: the id of the session's user, 0 for None. *)
get_current_user(cookie, rows, t) ==
    IF cookie.kind \in {"absent", "empty"} THEN 0
    ELSE LET payload == jwt_decode(cookie, SECRET_KEY, t)
         IN  IF ~payload.ok THEN 0
             ELSE IF payload.sub = None THEN 0
             ELSE find_user(rows, payload.sub[1])

----------------------------------------------------------------------------
(* The state after create_db_and_tables() on a fresh database *)

Clients == 1..NumClients
IdleRequest == [pc |-> "idle"]

NoSession == [cookie |-> NoCookie, issued |-> 0]
Idle == [op |-> "idle"]

Init ==
    /\ users = <<>>
    /\ devices = <<>>
    /\ readings = <<>>
    /\ now = 0
    /\ session = NoSession
    /\ inflight = [c \in Clients |-> IdleRequest]
    /\ resp = Idle

(* The wall clock advances. *)
Tick(limit) ==
    /\ now < limit
    /\ now' = now + 1
    /\ resp' = Idle
    /\ UNCHANGED <<users, devices, readings, session, inflight>>

----------------------------------------------------------------------------
(* Session routes *)

(* POST /signup *)
signup(username, password) ==
    /\ IF find_user(users, username) # 0
       THEN /\ resp' = [op |-> "signup", username |-> username, status |-> 400,
                        location |-> ""]
            /\ users' = users
       ELSE /\ users' = Append(users, [id |-> Len(users) + 1,
                                       username |-> username,
                                       hashed_password |-> get_password_hash(password)])
            /\ resp' = [op |-> "signup", username |-> username, status |-> 303,
                        location |-> "/login"]
    /\ UNCHANGED <<devices, readings, now, session, inflight>>

(* POST /login *)
login(username, password) ==
    LET user == find_user(users, username)
    IN  /\ IF user = 0 \/ ~verify_password(password, users[user].hashed_password)
           THEN /\ resp' = [op |-> "login", username |-> username, status |-> 400]
                /\ session' = session
           ELSE /\ session' =
                     [cookie |-> create_access_token(users[user].username,
                                     Some(ACCESS_TOKEN_EXPIRE_MINUTES), now),
                      issued |-> now]
                /\ resp' = [op |-> "login", username |-> username, status |-> 303]
        /\ UNCHANGED <<users, devices, readings, now, inflight>>

(* GET /logout *)
logout ==
    /\ session' = NoSession
    /\ resp' = [op |-> "logout", status |-> 303]
    /\ UNCHANGED <<users, devices, readings, now, inflight>>

(* The cookies a request may carry: none, an empty or malformed value, the
   browser's own, the browser's with its subject rewritten (the signature
   no longer fits), or a token signed with a key that is not the process's. *)
Cookies ==
    {NoCookie, EmptyCookie, MalformedCookie, session.cookie}
    \cup {Jwt(u, session.cookie.exp, session.cookie.sig) :
            u \in IF session.cookie.kind = "jwt" THEN Usernames ELSE {}}
    \cup {Jwt(u, now + ACCESS_TOKEN_EXPIRE_MINUTES,
              Sign("other_key", u, now + ACCESS_TOKEN_EXPIRE_MINUTES)) : u \in Usernames}

(* GET /: renders the page for the resolved user. *)
home(cookie) ==
    /\ resp' = [op |-> "home", cookie |-> cookie, status |-> 200,
                user |-> get_current_user(cookie, users, now)]
    /\ UNCHANGED <<users, devices, readings, now, session, inflight>>

NextAuth ==
    \/ \E u \in Usernames : signup(u, "pw")
    \/ \E u \in Usernames, p \in Passwords : login(u, p)
    \/ logout
    \/ \E c \in Cookies : home(c)
    \/ Tick(MaxTime)

SpecAuth == Init /\ [][NextAuth]_vars

----------------------------------------------------------------------------
(* POST /signup served by several worker processes over the one database:
   the existence check and the INSERT + COMMIT of one request are separate
   statements, and another worker's statements may run between them.
   signup_check is the handler up to its query, signup_commit is
   db.add(new_user); db.commit(). *)

(* users.username is unique=True: the INSERT of a row whose username is
   already stored fails with IntegrityError. *)
username_unique_violation_never(rows, row) == FALSE

username_unique_violation(rows, row) ==
    \E i \in 1..Len(rows) : rows[i].username = row.username

SignupResponse(username, status) ==
    [op |-> "signup", username |-> username, status |-> status,
     location |-> IF status = 303 THEN "/login" ELSE ""]

SignupFinished(username, status) ==
    [pc |-> "done", username |-> username, password |-> "", status |-> status]

signup_check(c, username, password) ==
    /\ inflight[c].pc \in {"idle", "done"}
    /\ IF find_user(users, username) # 0
       THEN /\ inflight' = [inflight EXCEPT ![c] = SignupFinished(username, 400)]
            /\ resp' = SignupResponse(username, 400)
       ELSE /\ inflight' = [inflight EXCEPT ![c] =
                               [pc |-> "checked", username |-> username,
                                password |-> password, status |-> 0]]
            /\ resp' = Idle
    /\ UNCHANGED <<users, devices, readings, now, session>>

signup_commit(c) ==
    LET r == inflight[c]
        new_user == [id |-> Len(users) + 1, username |-> r.username,
                     hashed_password |-> get_password_hash(r.password)]
    IN  /\ r.pc = "checked"
        /\ IF username_unique_violation(users, new_user)
           THEN /\ users' = users
                /\ inflight' = [inflight EXCEPT ![c] = SignupFinished(r.username, 500)]
                /\ resp' = SignupResponse(r.username, 500)
           ELSE /\ users' = Append(users, new_user)
                /\ inflight' = [inflight EXCEPT ![c] = SignupFinished(r.username, 303)]
                /\ resp' = SignupResponse(r.username, 303)
        /\ UNCHANGED <<devices, readings, now, session>>

NextSignupRace ==
    \/ \E c \in Clients, u \in Usernames : signup_check(c, u, "pw")
    \/ \E c \in Clients : signup_commit(c)

SpecSignupRace == Init /\ [][NextSignupRace]_vars

----------------------------------------------------------------------------
(* Device codes: Python's str.upper and str.strip, and the SQL that
   Device.device_code.ilike(x) renders on SQLite,
   lower(device_code) LIKE lower(x), whose lower() and LIKE fold ASCII
   letters only and whose LIKE reads % and _ in x as wildcards. *)

py_upper_char(c) ==
    CASE c = "d" -> "D"
      [] c = "e" -> "E"
      [] c = "z" -> "Z"
      [] c = "é" -> "É"
      [] OTHER -> c

sql_lower_char(c) ==
    CASE c = "D" -> "d"
      [] c = "E" -> "e"
      [] c = "Z" -> "z"
      [] OTHER -> c

upper(s) == [i \in 1..Len(s) |-> py_upper_char(s[i])]

sql_lower(s) == [i \in 1..Len(s) |-> sql_lower_char(s[i])]

RECURSIVE strip(_)
strip(s) ==
    IF s = <<>> THEN s
    ELSE IF Head(s) = " " THEN strip(Tail(s))
    ELSE IF s[Len(s)] = " " THEN strip(SubSeq(s, 1, Len(s) - 1))
    ELSE s

RECURSIVE sql_like(_, _)
sql_like(value, pattern) ==
    IF pattern = <<>> THEN value = <<>>
    ELSE IF Head(pattern) = "%"
         THEN \/ sql_like(value, Tail(pattern))
              \/ value # <<>> /\ sql_like(Tail(value), pattern)
    ELSE /\ value # <<>>
         /\ \/ Head(pattern) = "_"
            \/ sql_lower_char(Head(value)) = sql_lower_char(Head(pattern))
         /\ sql_like(Tail(value), Tail(pattern))

ilike(value, pattern) == sql_like(sql_lower(value), sql_lower(pattern))

(* db.query(Device).filter(Device.device_code.ilike(code)): the ids of the
   matching rows. *)
devices_ilike(rows, code) == {i \in 1..Len(rows) : ilike(rows[i].device_code, code)}

(* Device(...) as register_device builds it. *)
new_device(rows, user, device_code, device_name, latitude, longitude) ==
    [id |-> Len(rows) + 1, device_code |-> upper(device_code), name |-> device_name,
     latitude |-> latitude, longitude |-> longitude, user_id |-> user]

(* devices.device_code is unique=True: the INSERT of a row whose code is
   already stored fails with IntegrityError. *)
unique_violation(rows, row) ==
    \E i \in 1..Len(rows) : rows[i].device_code = row.device_code

(* What the register-device form may carry *)
RegCodes == {<<"d", "1">>, <<"D", "1">>, <<"é">>, <<"%">>, <<"d", "_">>}
Latitudes == {None, Some(51), Some(52)}
Longitudes == {None, Some(7)}

(* latitude: float = Form(...), longitude: float = Form(...): both required. *)
form_missing_never(latitude, longitude) == FALSE

form_missing(latitude, longitude) == latitude = None \/ longitude = None

(* 422: validation error; 303 to /login: no session; 400: the account page
   with "Device code already registered."; 500: uncaught IntegrityError;
   303 to /account: registered. *)
RegisterResponse(user, device_code, latitude, longitude, status) ==
    [op |-> "register", user |-> user, device_code |-> device_code,
     latitude |-> latitude, longitude |-> longitude, status |-> status,
     location |-> IF status # 303 THEN ""
                  ELSE IF user = 0 THEN "/login" ELSE "/account"]

(* POST /account/register-device served by a single event loop: the handler
   is a coroutine that never awaits, so it runs from its check to its commit
   with no other request in between.  `user` is what get_current_user
   resolved.  latitude and longitude are Form(...) fields: a request that
   omits one is answered 422 before the handler runs. *)
register_device(user, device_code, device_name, latitude, longitude) ==
    /\ IF form_missing(latitude, longitude)
       THEN /\ resp' = RegisterResponse(user, device_code, latitude, longitude, 422)
            /\ devices' = devices
       ELSE IF user = 0
       THEN /\ resp' = RegisterResponse(user, device_code, latitude, longitude, 303)
            /\ devices' = devices
       ELSE IF devices_ilike(devices, device_code) # {}
       THEN /\ resp' = RegisterResponse(user, device_code, latitude, longitude, 400)
            /\ devices' = devices
       ELSE LET row == new_device(devices, user, device_code, device_name,
                                  latitude, longitude)
            IN  IF unique_violation(devices, row)
                THEN /\ resp' = RegisterResponse(user, device_code, latitude,
                                                 longitude, 500)
                     /\ devices' = devices
                ELSE /\ devices' = Append(devices, row)
                     /\ resp' = RegisterResponse(user, device_code, latitude,
                                                 longitude, 303)
    /\ UNCHANGED <<users, readings, now, session, inflight>>

(* POST /account/register-device served by several worker processes over
   the one database: the existence check and the INSERT + COMMIT of one
   request are separate statements, and another worker's statements may run
   between them.  register_check is the handler up to its query,
   register_commit is db.add(new_device); db.commit(). *)
Finished(user, device_code, latitude, longitude, status) ==
    [pc |-> "done", user |-> user, device_code |-> device_code, name |-> "",
     latitude |-> latitude, longitude |-> longitude, status |-> status]

register_check(c, user, device_code, device_name, latitude, longitude) ==
    /\ inflight[c].pc = "idle"
    /\ IF form_missing(latitude, longitude)
       THEN /\ inflight' = [inflight EXCEPT ![c] =
                               Finished(user, device_code, latitude, longitude, 422)]
            /\ resp' = RegisterResponse(user, device_code, latitude, longitude, 422)
       ELSE IF user = 0
       THEN /\ inflight' = [inflight EXCEPT ![c] =
                               Finished(user, device_code, latitude, longitude, 303)]
            /\ resp' = RegisterResponse(user, device_code, latitude, longitude, 303)
       ELSE IF devices_ilike(devices, device_code) # {}
       THEN /\ inflight' = [inflight EXCEPT ![c] =
                               Finished(user, device_code, latitude, longitude, 400)]
            /\ resp' = RegisterResponse(user, device_code, latitude, longitude, 400)
       ELSE /\ inflight' = [inflight EXCEPT ![c] =
                               [pc |-> "checked", user |-> user,
                                device_code |-> device_code, name |-> device_name,
                                latitude |-> latitude, longitude |-> longitude,
                                status |-> 0]]
            /\ resp' = Idle
    /\ UNCHANGED <<users, devices, readings, now, session>>

register_commit(c) ==
    LET r == inflight[c]
        row == new_device(devices, r.user, r.device_code, r.name,
                          r.latitude, r.longitude)
    IN  /\ r.pc = "checked"
        /\ IF unique_violation(devices, row)
           THEN /\ devices' = devices
                /\ inflight' = [inflight EXCEPT ![c] =
                       Finished(r.user, r.device_code, r.latitude, r.longitude, 500)]
                /\ resp' = RegisterResponse(r.user, r.device_code, r.latitude,
                                            r.longitude, 500)
           ELSE /\ devices' = Append(devices, row)
                /\ inflight' = [inflight EXCEPT ![c] =
                       Finished(r.user, r.device_code, r.latitude, r.longitude, 303)]
                /\ resp' = RegisterResponse(r.user, r.device_code, r.latitude,
                                            r.longitude, 303)
        /\ UNCHANGED <<users, readings, now, session>>

RaceCodes == {<<"d", "1">>, <<"D", "1">>, <<"e", "2">>}

NextRace ==
    \/ signup("bob", "pw")
    \/ \E c \in Clients, user \in 0..Len(users), code \in RaceCodes,
          lon \in Longitudes :
          register_check(c, user, code, "station", Some(51), lon)
    \/ \E c \in Clients : register_commit(c)

SpecRace == Init /\ [][NextRace]_vars

(* GET /api/devices *)
get_devices ==
    /\ resp' = [op |-> "devices", status |-> 200,
                ids |-> {i \in 1..Len(devices) :
                           devices[i].latitude # None /\ devices[i].longitude # None}]
    /\ UNCHANGED <<users, devices, readings, now, session, inflight>>

NextRegistry ==
    \/ signup("bob", "pw")
    \/ \E user \in 0..Len(users), code \in RegCodes, lat \in Latitudes, lon \in Longitudes :
          register_device(user, code, "station", lat, lon)
    \/ get_devices

SpecRegistry == Init /\ [][NextRegistry]_vars

----------------------------------------------------------------------------
(* Sensor API *)

(* A JSON field: a number, a non-numeric text, or not in the body. *)
Number(v) == [kind |-> "number", value |-> v]
Missing == [kind |-> "missing", value |-> 0]
Text == [kind |-> "text", value |-> 0]

(* class SensorData(BaseModel): temperature_c and humidity are required
   floats, pressure is an optional float that defaults to None. *)
SensorData(body) ==
    IF /\ body.temperature_c.kind = "number"
       /\ body.humidity.kind = "number"
       /\ body.pressure.kind \in {"number", "missing"}
    THEN [ok |-> TRUE,
          temperature_c |-> body.temperature_c.value,
          humidity |-> body.humidity.value,
          pressure |-> IF body.pressure.kind = "number"
                       THEN Some(body.pressure.value) ELSE None]
    ELSE [ok |-> FALSE, temperature_c |-> 0, humidity |-> 0, pressure |-> None]

(* request.headers.get("deviceCode") *)
NoHeader == [present |-> FALSE, value |-> <<>>]
Header(v) == [present |-> TRUE, value |-> v]

(* if not device_code *)
header_missing_when_absent(header) == ~header.present

header_missing(header) == ~header.present \/ header.value = <<>>

(* POST /api/sensor-data.  The body is validated into SensorData before the
   handler runs (422); then the header check (400), the lookup (404) and the
   insert (201).  .first() on a query with no ORDER BY may return any of the
   matching rows.  Reading.timestamp defaults to the clock at the insert. *)
receive_sensor_data(header, body) ==
    LET sensor_data == SensorData(body)
        cleaned_code == strip(header.value)
        found == devices_ilike(devices, cleaned_code)
    IN  /\ Len(readings) < MaxReadings
        /\ IF ~sensor_data.ok
           THEN /\ resp' = [op |-> "ingest", header |-> header, body |-> body,
                            status |-> 422]
                /\ readings' = readings
           ELSE IF header_missing(header)
           THEN /\ resp' = [op |-> "ingest", header |-> header, body |-> body,
                            status |-> 400]
                /\ readings' = readings
           ELSE IF found = {}
           THEN /\ resp' = [op |-> "ingest", header |-> header, body |-> body,
                            status |-> 404]
                /\ readings' = readings
           ELSE \E device \in found :
                /\ readings' = Append(readings,
                       [id |-> Len(readings) + 1,
                        timestamp |-> now,
                        temperature |-> sensor_data.temperature_c,
                        pressure |-> sensor_data.pressure,
                        humidity |-> sensor_data.humidity,
                        device_id |-> device])
                /\ resp' = [op |-> "ingest", header |-> header, body |-> body,
                            status |-> 201]
        /\ UNCHANGED <<users, devices, now, session, inflight>>

(* The rain chance of get_latest_reading, of the latest reading's humidity. *)
rain_chance(humidity) ==
    IF humidity # 0
    THEN IF humidity > 80 THEN 75
         ELSE IF humidity > 60 THEN 45
         ELSE IF humidity > 40 THEN 20
         ELSE 5
    ELSE 0

(* db.query(Reading).filter(Reading.device_id == device_id)
     .order_by(Reading.timestamp.desc()).first(): the rows the query may
   return, those of the device with the greatest timestamp. *)
latest_readings(rows, device_id) ==
    {i \in 1..Len(rows) :
        /\ rows[i].device_id = device_id
        /\ \A j \in 1..Len(rows) :
              rows[j].device_id = device_id => rows[j].timestamp <= rows[i].timestamp}

(* GET /api/devices/{device_id}/latest *)
get_latest_reading(device_id) ==
    /\ IF device_id \notin 1..Len(devices)
       THEN resp' = [op |-> "latest", device_id |-> device_id, status |-> 404]
       ELSE IF latest_readings(readings, device_id) = {}
       THEN resp' = [op |-> "latest", device_id |-> device_id, status |-> 200,
                     device_name |-> devices[device_id].name,
                     temperature |-> None, humidity |-> None, pressure |-> None,
                     timestamp |-> None, rain_chance |-> 0]
       ELSE \E i \in latest_readings(readings, device_id) :
              resp' = [op |-> "latest", device_id |-> device_id, status |-> 200,
                       device_name |-> devices[device_id].name,
                       temperature |-> Some(readings[i].temperature),
                       humidity |-> Some(readings[i].humidity),
                       pressure |-> readings[i].pressure,
                       timestamp |-> Some(readings[i].timestamp),
                       rain_chance |-> rain_chance(readings[i].humidity)]
    /\ UNCHANGED <<users, devices, readings, now, session, inflight>>

(* Requests to the sensor API: headers and bodies of every kind the handler
   tells apart. *)
IngestCodes == {<<"d", "1">>, <<"e", "2">>}
IngestHeaders ==
    {NoHeader, Header(<<>>), Header(<<" ">>), Header(<<"d", "1">>),
     Header(<<" ", "D", "1", " ">>), Header(<<"e", "2">>), Header(<<"z", "9">>),
     Header(<<"%">>), Header(<<"d", "_">>)}
IngestBodies ==
    {[temperature_c |-> Number(21), humidity |-> Number(55), pressure |-> p] :
        p \in {Missing, Number(1013)}}
    \cup {[temperature_c |-> Number(21), humidity |-> Missing, pressure |-> Missing],
          [temperature_c |-> Text, humidity |-> Number(55), pressure |-> Missing],
          [temperature_c |-> Number(21), humidity |-> Number(55), pressure |-> Text]}

NextIngest ==
    \/ signup("bob", "pw")
    \/ \E user \in 0..Len(users), code \in IngestCodes :
          register_device(user, code, "station", Some(51), Some(7))
    \/ \E header \in IngestHeaders, body \in IngestBodies :
          receive_sensor_data(header, body)
    \/ Tick(MaxStamp)

SpecIngest == Init /\ [][NextIngest]_vars

(* Readings of every humidity band and their latest. *)
Humidities == {0, 40, 41, 60, 61, 80, 81}
LatestBodies ==
    {[temperature_c |-> Number(21), humidity |-> Number(h), pressure |-> p] :
        h \in Humidities, p \in {Missing, Number(1013)}}

NextLatest ==
    \/ signup("bob", "pw")
    \/ \E user \in 1..Len(users), code \in IngestCodes :
          register_device(user, code, "station", Some(51), Some(7))
    \/ \E code \in IngestCodes, body \in LatestBodies :
          receive_sensor_data(Header(code), body)
    \/ \E device_id \in 1..(Len(devices) + 1) : get_latest_reading(device_id)
    \/ Tick(MaxStamp)

SpecLatest == Init /\ [][NextLatest]_vars

----------------------------------------------------------------------------
(* C1: of two register-device requests by signed-in users with the same
   device code, whatever the interleaving of their checks and commits,
   exactly one creates the device (303) and the other is answered 400
   "Device code already registered."; one device with that code is stored. *)
C1_ConcurrentRegistration ==
    \A a, b \in Clients :
        (/\ a # b
         /\ inflight[a].pc = "done" /\ inflight[b].pc = "done"
         /\ inflight[a].user # 0 /\ inflight[b].user # 0
         /\ inflight[a].status # 422 /\ inflight[b].status # 422
         /\ inflight[a].device_code = inflight[b].device_code) =>
            /\ {inflight[a].status, inflight[b].status} = {303, 400}
            /\ Cardinality({i \in 1..Len(devices) :
                   devices[i].device_code = upper(inflight[a].device_code)}) = 1

(* Equality of two device codes ignoring case. *)
SameCodeIgnoringCase(a, b) == upper(a) = upper(b)

(* C2: no two stored devices have codes that are equal ignoring case; a
   registration (by a signed-in user, with both coordinates) whose code
   equals a stored code ignoring case is answered 400 and adds no device;
   every code that is stored is the upper-cased form of the submitted one. *)
C2_CaseInsensitiveUniqueness ==
    [][(resp'.op = "register" /\ resp'.user # 0
            /\ resp'.latitude # None /\ resp'.longitude # None) =>
         /\ (\E i \in 1..Len(devices) :
                SameCodeIgnoringCase(devices[i].device_code, resp'.device_code))
               => (resp'.status = 400 /\ devices' = devices)
         /\ \A i, j \in 1..Len(devices') :
               i # j => ~SameCodeIgnoringCase(devices'[i].device_code,
                                              devices'[j].device_code)
         /\ devices' # devices =>
               /\ Len(devices') = Len(devices) + 1
               /\ devices'[Len(devices')].device_code = upper(resp'.device_code)]_vars

(* C10: a registration by a signed-in user with a fresh code that omits
   latitude and/or longitude succeeds and stores a device whose omitted
   coordinate is null, which GET /api/devices then leaves out; one that
   supplies them stores the supplied values. *)
C10_OptionalCoordinates ==
    [][(/\ resp'.op = "register"
        /\ resp'.user # 0
        /\ ~\E i \in 1..Len(devices) :
               SameCodeIgnoringCase(devices[i].device_code, resp'.device_code)) =>
         /\ resp'.status = 303 /\ resp'.location = "/account"
         /\ Len(devices') = Len(devices) + 1
         /\ devices'[Len(devices')].latitude = resp'.latitude
         /\ devices'[Len(devices')].longitude = resp'.longitude]_vars

(* C3: an ingest (valid body, header present and not empty) whose header,
   trimmed, equals no stored device's code ignoring case is answered 404 and
   leaves the readings as they were, whatever characters the header holds. *)
C3_UnknownDeviceCode ==
    [][(/\ resp'.op = "ingest"
        /\ SensorData(resp'.body).ok
        /\ resp'.header.present /\ resp'.header.value # <<>>
        /\ ~\E i \in 1..Len(devices) :
               SameCodeIgnoringCase(devices[i].device_code,
                                    strip(resp'.header.value))) =>
         (resp'.status = 404 /\ readings' = readings)]_vars

(* The rain chance of a humidity over the four bands. *)
Bands(h) == IF h > 80 THEN 75 ELSE IF h > 60 THEN 45 ELSE IF h > 40 THEN 20 ELSE 5

(* The reading the last ingest for a device stored. *)
LastIngested(device_id) ==
    LET ids == {i \in 1..Len(readings) : readings[i].device_id = device_id}
    IN  readings[CHOOSE i \in ids : \A j \in ids : j <= i]

(* C4: GET /api/devices/{d}/latest returns the temperature, humidity and
   pressure (null when absent) of the last ingest for d and the rain chance
   of its humidity, and carries the greatest timestamp among d's readings,
   whatever other devices received. *)
C4_LatestReflectsIngest ==
    (/\ resp.op = "latest" /\ resp.status = 200
     /\ \E i \in 1..Len(readings) : readings[i].device_id = resp.device_id) =>
        LET last == LastIngested(resp.device_id)
        IN  /\ resp.temperature = <<last.temperature>>
            /\ resp.humidity = <<last.humidity>>
            /\ resp.pressure = last.pressure
            /\ resp.rain_chance = Bands(last.humidity)
            /\ \A i \in 1..Len(readings) :
                  readings[i].device_id = resp.device_id =>
                     readings[i].timestamp <= resp.timestamp[1]

(* C8: the rain chance is 75, 45, 20 or 5 by the band of the returned
   humidity (5 for every humidity of 40 or less, 0 included), and 0 only
   when the device has no reading. *)
C8_RainChanceBands ==
    (resp.op = "latest" /\ resp.status = 200) =>
        /\ resp.humidity # <<>> => resp.rain_chance = Bands(resp.humidity[1])
        /\ resp.rain_chance = 0 =>
              ~\E i \in 1..Len(readings) : readings[i].device_id = resp.device_id

BodyIsValid(body) ==
    /\ body.temperature_c.kind = "number"
    /\ body.humidity.kind = "number"
    /\ body.pressure.kind # "text"

HeaderAbsentOrEmpty(header) == ~header.present \/ header.value = <<>>

(* C9 as stated: every ingest whose deviceCode header is absent or empty is
   answered 400 and creates no reading, whatever its body; 404 and the
   invalid-payload answer are only given to requests that carry the header. *)
C9_HeaderCheckFirst ==
    [][resp'.op = "ingest" =>
         /\ HeaderAbsentOrEmpty(resp'.header) =>
               (resp'.status = 400 /\ readings' = readings)
         /\ resp'.status \in {404, 422} => ~HeaderAbsentOrEmpty(resp'.header)]_vars

(* C9 as amended: the body is validated first.  An ingest with an invalid
   body is answered 422 and creates no reading, whatever its header; an
   ingest with a valid body and an absent or empty header is answered 400 and
   creates no reading; 404 is only given to requests with a valid body and a
   header that is present and not empty. *)
C9_BodyThenHeader ==
    [][resp'.op = "ingest" =>
         /\ ~BodyIsValid(resp'.body) =>
               (resp'.status = 422 /\ readings' = readings)
         /\ (BodyIsValid(resp'.body) /\ HeaderAbsentOrEmpty(resp'.header)) =>
               (resp'.status = 400 /\ readings' = readings)
         /\ resp'.status = 404 =>
               /\ BodyIsValid(resp'.body)
               /\ ~HeaderAbsentOrEmpty(resp'.header)
               /\ readings' = readings]_vars

(* With a device registered, a valid body under an empty deviceCode header
   has been answered 400. *)
C9_Witness ==
    /\ resp.op = "ingest"
    /\ resp.header = [present |-> TRUE, value |-> <<>>]
    /\ BodyIsValid(resp.body)
    /\ resp.status = 400
    /\ Len(devices) > 0

(* C10 as amended: latitude and longitude are required.  A registration that
   omits either is answered 422 and stores no device; a registration that is
   accepted stores exactly the latitude and longitude supplied, neither of
   them null, so GET /api/devices lists every registered device. *)
C10_RequiredCoordinates ==
    [][/\ resp'.op = "register" =>
            /\ (resp'.latitude = <<>> \/ resp'.longitude = <<>>) =>
                  (resp'.status = 422 /\ devices' = devices)
            /\ devices' # devices =>
                  /\ resp'.status = 303 /\ resp'.location = "/account"
                  /\ Len(devices') = Len(devices) + 1
                  /\ SubSeq(devices', 1, Len(devices)) = devices
                  /\ devices'[Len(devices')].latitude = resp'.latitude
                  /\ devices'[Len(devices')].longitude = resp'.longitude
       /\ resp'.op = "devices" => resp'.ids = 1..Len(devices')]_vars

(* A signed-in user's registration with a fresh code and no latitude has
   been answered 422, beside a device registered before. *)
C10_Witness ==
    /\ resp.op = "register"
    /\ resp.user # 0
    /\ resp.latitude = <<>> /\ resp.longitude # <<>>
    /\ resp.status = 422
    /\ Len(devices) > 0
    /\ ~\E i \in 1..Len(devices) :
           SameCodeIgnoringCase(devices[i].device_code, resp.device_code)

----------------------------------------------------------------------------
(* C5: a signup whose username exactly equals a stored username is answered
   400 and leaves the users table as it was; a signup whose username differs
   from every stored one (even only by case) appends exactly one row with
   that username and redirects with 303 to /login. *)
C5_SignupExactMatch ==
    [][resp'.op = "signup" =>
         LET u == resp'.username
         IN  IF \E i \in 1..Len(users) : users[i].username = u
             THEN resp'.status = 400 /\ users' = users
             ELSE /\ resp'.status = 303
                  /\ resp'.location = "/login"
                  /\ Len(users') = Len(users) + 1
                  /\ SubSeq(users', 1, Len(users)) = users
                  /\ users'[Len(users')].username = u]_vars

(* Two users whose names differ only by case are stored and a further signup
   with one of the names has been refused. *)
C5_Witness ==
    /\ resp.op = "signup"
    /\ resp.status = 400
    /\ Len(users) = 2
    /\ users[1].username # users[2].username
    /\ lower_name(users[1].username) = lower_name(users[2].username)

(* C6: a token issued by a successful login at minute T resolves to its user
   at every minute before T + 30 and to no user at every minute after
   T + 30. *)
C6_TokenLifetime ==
    (resp.op = "home" /\ session.cookie.kind = "jwt" /\ resp.cookie = session.cookie) =>
        /\ now < session.issued + 30 =>
               /\ resp.user # 0
               /\ users[resp.user].username = session.cookie.sub
        /\ now > session.issued + 30 => resp.user = 0

(* The browser's token is presented 31 minutes after the login and refused. *)
C6_Witness ==
    /\ resp.op = "home"
    /\ session.cookie.kind = "jwt"
    /\ resp.cookie = session.cookie
    /\ now = session.issued + 31
    /\ resp.user = 0

(* C7: session resolution yields user u exactly when the cookie holds a token
   signed with the process key, not expired, whose subject is the username of
   the stored user u; in every other case it yields no user, and the page is
   served all the same (status 200), with nothing telling the cases apart. *)
C7_SessionResolution ==
    resp.op = "home" =>
        LET c == resp.cookie
            good == /\ c.kind = "jwt"
                    /\ c.sig = <<SECRET_KEY, c.sub, c.exp>>
                    /\ now <= c.exp
                    /\ \E i \in 1..Len(users) : users[i].username = c.sub
        IN  /\ resp.status = 200
            /\ resp.user \in 0..Len(users)
            /\ good <=> resp.user # 0
            /\ resp.user # 0 => users[resp.user].username = c.sub

(* A token signed with another key, naming a stored user and not expired, is
   presented and resolves to no user. *)
C7_Witness ==
    /\ resp.op = "home"
    /\ resp.cookie.kind = "jwt"
    /\ resp.cookie.sig # <<SECRET_KEY, resp.cookie.sub, resp.cookie.exp>>
    /\ resp.cookie.exp >= now
    /\ \E i \in 1..Len(users) : users[i].username = resp.cookie.sub
    /\ resp.user = 0

(* C11: under every interleaving of concurrent signups, the users table never
   holds two rows with one username: a request that commits a username which
   another request stored after its check is refused by the unique
   constraint, ends in a storage failure (500) and adds no row; a commit of
   a username not yet stored adds exactly that row. *)
C11_SignupRaceNoDuplicate ==
    [][/\ \A i, j \in 1..Len(users') :
             i # j => users'[i].username # users'[j].username
       /\ \A c \in Clients :
             (inflight[c].pc = "checked" /\ inflight'[c].pc = "done") =>
                IF \E i \in 1..Len(users) : users[i].username = inflight[c].username
                THEN inflight'[c].status = 500 /\ users' = users
                ELSE /\ inflight'[c].status = 303
                     /\ Len(users') = Len(users) + 1
                     /\ SubSeq(users', 1, Len(users)) = users
                     /\ users'[Len(users')].username = inflight[c].username]_vars

(* Two signups with one username both passed the check; one stored the user
   and the other ended in the storage failure. *)
C11_Witness ==
    \E a, b \in Clients :
        /\ a # b
        /\ inflight[a].pc = "done" /\ inflight[b].pc = "done"
        /\ inflight[a].username = inflight[b].username
        /\ inflight[a].status = 303 /\ inflight[b].status = 500
        /\ Cardinality({i \in 1..Len(users) :
               users[i].username = inflight[a].username}) = 1

====
